---- MODULE Spec2Model ----
(***************************************************************************)
(* Model of the sandboxed file tools of mcp_server.py: the path guard      *)
(* safe_join_and_check and the three tool handlers tool_read_file,         *)
(* tool_list_directory and tool_write_file, over a POSIX filesystem.       *)
(*                                                                         *)
(* A Python str is a sequence of one-character strings.  A filesystem      *)
(* path is such a sequence too ("/sandbox/a"), exactly what os.path works  *)
(* on, so that string-level and component-level comparisons differ in the  *)
(* model as they do in the program.                                        *)
(***************************************************************************)
EXTENDS Integers, Sequences, FiniteSets, TLC

VARIABLES arg, resolved, fs, req, res, pre, written, ran, reply, boot, procs, log

vars == <<arg, resolved, fs, req, res, pre, written, ran, reply, boot, procs, log>>

(***************************************************************************)
(* Bounds                                                                  *)
(***************************************************************************)
\* longest generated request path, in '/'-separated segments
MaxSegs == 3
\* longest generated run of leading separator characters
MaxLead == 1
\* requests served after a startup
MaxServed == 2

(***************************************************************************)
(* Strings                                                                 *)
(***************************************************************************)
SLASH == "/"
BACKSLASH == "\\"
DOT == <<".">>
DOTDOT == <<".", ".">>
EMPTY == <<>>

nA == <<"a">>
nB == <<"b">>
nC == <<"c", ".", "t", "x", "t">>
nX == <<"x">>
nEtc == <<"e", "t", "c">>
nPasswd == <<"p", "a", "s", "s", "w", "d">>
nAbs == <<"a", "b", "s">>
nOutside == <<"o", "u", "t", "s", "i", "d", "e">>
nSecret == <<"s", "e", "c", "r", "e", "t">>
nSandbox == <<"s", "a", "n", "d", "b", "o", "x">>
nSandboxExtra == nSandbox \o <<"-", "e", "x", "t", "r", "a">>
nDots == <<".", ".", ".", ".">>

\* "/".join(comps)
RECURSIVE JoinWith(_, _)
JoinWith(comps, sep) ==
  IF comps = <<>> THEN <<>>
  ELSE IF Len(comps) = 1 THEN comps[1]
  ELSE comps[1] \o <<sep>> \o JoinWith(Tail(comps), sep)

\* str.split(sep): the pieces between separators, "" included
RECURSIVE SplitAcc(_, _, _)
SplitAcc(s, sep, cur) ==
  IF s = <<>> THEN <<cur>>
  ELSE IF Head(s) = sep THEN <<cur>> \o SplitAcc(Tail(s), sep, <<>>)
  ELSE SplitAcc(Tail(s), sep, Append(cur, Head(s)))

Split(s, sep) == SplitAcc(s, sep, <<>>)

StartsWith(s, p) == Len(p) <= Len(s) /\ SubSeq(s, 1, Len(p)) = p

\* str.lstrip(chars)
RECURSIVE lstrip(_, _)
lstrip(s, chars) ==
  IF s # <<>> /\ Head(s) \in chars THEN lstrip(Tail(s), chars) ELSE s

\* the path made of the given segments
Path(comps) == JoinWith(comps, SLASH)

(***************************************************************************)
(* posixpath                                                               *)
(***************************************************************************)
\* the loop of posixpath.normpath over the split components
RECURSIVE NormComps(_, _, _)
NormComps(comps, initial_slashes, new_comps) ==
  IF comps = <<>> THEN new_comps
  ELSE LET comp == Head(comps) IN
    IF comp = EMPTY \/ comp = DOT
      THEN NormComps(Tail(comps), initial_slashes, new_comps)
    ELSE IF \/ comp # DOTDOT
            \/ (initial_slashes = 0 /\ new_comps = <<>>)
            \/ (new_comps # <<>> /\ new_comps[Len(new_comps)] = DOTDOT)
      THEN NormComps(Tail(comps), initial_slashes, Append(new_comps, comp))
    ELSE IF new_comps # <<>>
      THEN NormComps(Tail(comps), initial_slashes,
                     SubSeq(new_comps, 1, Len(new_comps) - 1))
    ELSE NormComps(Tail(comps), initial_slashes, new_comps)

InitialSlashes(path) ==
  IF ~StartsWith(path, <<SLASH>>) THEN 0
  ELSE IF StartsWith(path, <<SLASH, SLASH>>)
          /\ ~StartsWith(path, <<SLASH, SLASH, SLASH>>) THEN 2
  ELSE 1

normpath(path) ==
  IF path = <<>> THEN DOT
  ELSE LET n == InitialSlashes(path)
           body == JoinWith(NormComps(Split(path, SLASH), n, <<>>), SLASH)
           out == [i \in 1..n |-> SLASH] \o body
       IN IF out = <<>> THEN DOT ELSE out

isabs(path) == StartsWith(path, <<SLASH>>)

\* posixpath.join(a, b)
join(a, b) ==
  IF StartsWith(b, <<SLASH>>) THEN b
  ELSE IF a = <<>> \/ a[Len(a)] = SLASH THEN a \o b
  ELSE a \o <<SLASH>> \o b

\* the working directory of the server process
Cwd == <<SLASH>>

abspath(path) ==
  IF isabs(path) THEN normpath(path) ELSE normpath(join(Cwd, path))

\* posixpath.dirname
RECURSIVE LastSlash(_, _)
LastSlash(p, i) ==
  IF i = 0 THEN 0 ELSE IF p[i] = SLASH THEN i ELSE LastSlash(p, i - 1)

RECURSIVE RStripSlash(_)
RStripSlash(s) ==
  IF s # <<>> /\ s[Len(s)] = SLASH THEN RStripSlash(SubSeq(s, 1, Len(s) - 1))
  ELSE s

dirname(p) ==
  LET i == LastSlash(p, Len(p))
      head == SubSeq(p, 1, i)
  IN IF head # <<>> /\ head # [k \in 1..Len(head) |-> SLASH]
       THEN RStripSlash(head) ELSE head

basename(p) == SubSeq(p, LastSlash(p, Len(p)) + 1, Len(p))

\* os.path.commonprefix of two strings: the longest common leading run of
\* characters
RECURSIVE commonprefix(_, _)
commonprefix(a, b) ==
  IF a = <<>> \/ b = <<>> \/ Head(a) # Head(b) THEN <<>>
  ELSE <<Head(a)>> \o commonprefix(Tail(a), Tail(b))

(***************************************************************************)
(* The sandbox root and the path guard                                     *)
(***************************************************************************)
\* __file__ of the server script, and the name of its default sandbox
ScriptFile == Path(<<EMPTY, <<"a", "p", "p">>, <<"m", "c", "p", "_", "s", "e", "r", "v", "e", "r", ".", "p", "y">>>>)
default_dir_name ==
  <<"m", "c", "p", "_", "d", "a", "t", "a", "_", "s", "a", "n", "d", "b", "o", "x">>

\* Python truth value of an optional string (None or "" is false)
given(opt) == opt.k = "str" /\ opt.s # <<>>

\* the environment variable consulted before the command line
get_base_dir_env_first(sandbox_dir, env_dir) ==
  IF given(env_dir) THEN abspath(env_dir.s)
  ELSE IF given(sandbox_dir) THEN abspath(sandbox_dir.s)
  ELSE abspath(join(dirname(ScriptFile), default_dir_name))

\* sandbox_dir: args.sandbox_dir; env_dir: os.environ.get("MCP_SANDBOX_DIR")
get_base_dir(sandbox_dir, env_dir) ==
  IF given(sandbox_dir) THEN abspath(sandbox_dir.s)
  ELSE IF given(env_dir) THEN abspath(env_dir.s)
  ELSE abspath(join(dirname(ScriptFile), default_dir_name))

\* the root of the server whose tool calls are modelled: --sandbox-dir /sandbox
BASE_DIR == abspath(<<SLASH>> \o nSandbox)

Accepted(p) == [ok |-> TRUE, path |-> p]
Rejected == [ok |-> FALSE, path |-> <<>>]

\* the guard without the removal of leading separators
safe_join_and_check_nostrip(relative_path_str) ==
  LET normalized_path == normpath(relative_path_str)
      full_path == abspath(join(BASE_DIR, normalized_path))
  IN IF commonprefix(full_path, BASE_DIR) # BASE_DIR
       THEN Rejected
       ELSE Accepted(full_path)

safe_join_and_check(relative_path_str) ==
  LET normalized_path == normpath(lstrip(relative_path_str, {SLASH, BACKSLASH}))
      full_path == abspath(join(BASE_DIR, normalized_path))
  IN IF commonprefix(full_path, BASE_DIR) # BASE_DIR
       THEN Rejected
       ELSE Accepted(full_path)

(***************************************************************************)
(* The filesystem: absolute normalized path |-> node                       *)
(***************************************************************************)
CR == "\r"
LF == "\n"
\* a lone surrogate code point, which json.loads accepts and UTF-8 rejects
SUR == "\\ud800"

Dir == [kind |-> "dir", data |-> <<>>]
File(data) == [kind |-> "file", data |-> data]

\* os.path.isdir in the place of os.path.exists
exists_as_isdir(f, p) == p \in DOMAIN f /\ f[p].kind = "dir"

exists(f, p) == p \in DOMAIN f
isdir(f, p) == p \in DOMAIN f /\ f[p].kind = "dir"
\* os.path.exists in the place of os.path.isfile
isfile_as_exists(f, p) == p \in DOMAIN f

isfile(f, p) == p \in DOMAIN f /\ f[p].kind = "file"

\* p and its ancestors, up to "/"
RECURSIVE SelfAndAncestors(_)
SelfAndAncestors(p) ==
  IF p = <<SLASH>> \/ p = <<>> THEN {<<SLASH>>}
  ELSE {p} \cup SelfAndAncestors(dirname(p))

\* os.listdir: the names of the immediate children
listdir(f, p) == {basename(q) : q \in {c \in DOMAIN f : c # p /\ dirname(c) = p}}

\* os.makedirs(p), p absent: ok iff the nearest existing ancestor is a
\* directory; then every missing ancestor and p itself become directories
makedirs_ok(f, p) ==
  \A q \in SelfAndAncestors(p) : exists(f, q) => isdir(f, q)

\* os.mkdir in the place of os.makedirs: only the last directory is made
makedirs_last_only(f, p) ==
  [q \in DOMAIN f \cup {p} |-> IF q \in DOMAIN f THEN f[q] ELSE Dir]

makedirs(f, p) ==
  LET missing == {q \in SelfAndAncestors(p) : ~exists(f, q)}
  IN [q \in DOMAIN f \cup missing |-> IF q \in DOMAIN f THEN f[q] ELSE Dir]

\* open(p, 'w'): ok iff the parent is a directory and p is not one; the file
\* is created or truncated
open_w_ok(f, p) == isdir(f, dirname(p)) /\ ~isdir(f, p)

open_w(f, p) == [q \in DOMAIN f \cup {p} |-> IF q = p THEN File(<<>>) ELSE f[q]]

\* the utf-8 codec: a lone surrogate cannot be encoded
Encodable(text) == \A i \in 1..Len(text) : text[i] # SUR

\* os.linesep
linesep == <<LF>>

\* text-mode write, newline=None: "\n" is written as os.linesep
RECURSIVE write_translate(_)
write_translate(text) ==
  IF text = <<>> THEN <<>>
  ELSE (IF Head(text) = LF THEN linesep ELSE <<Head(text)>>)
       \o write_translate(Tail(text))

\* text-mode read, newline=None: "\r\n" and "\r" are read as "\n"
RECURSIVE read_translate(_)
read_translate(data) ==
  IF data = <<>> THEN <<>>
  ELSE IF Head(data) = CR
    THEN IF Len(data) >= 2 /\ data[2] = LF
           THEN <<LF>> \o read_translate(Tail(Tail(data)))
           ELSE <<LF>> \o read_translate(Tail(data))
  ELSE <<Head(data)>> \o read_translate(Tail(data))

\* f.write(content) on the open file p
f_write(f, p, content) == [f EXCEPT ![p] = File(write_translate(content))]

\* f.read()
f_read(f, p) == read_translate(f[p].data)

(***************************************************************************)
(* JSON values of a request's parameters                                   *)
(***************************************************************************)
Absent == [k |-> "absent", s |-> <<>>, b |-> FALSE]
Null == [k |-> "null", s |-> <<>>, b |-> FALSE]
Str(s) == [k |-> "str", s |-> s, b |-> FALSE]
Bool(b) == [k |-> "bool", s |-> <<>>, b |-> b]
\* a non-zero number
Num == [k |-> "num", s |-> <<>>, b |-> TRUE]

\* dict.get(key) without the default
get_without_default(v, default) == v

\* dict.get(key, default)
get(v, default) == IF v.k = "absent" THEN default ELSE v

\* Python truth value
truthy(v) ==
  CASE v.k = "str" -> v.s # <<>>
    [] v.k = "bool" -> v.b
    [] v.k = "num" -> v.b
    [] OTHER -> FALSE

Params(path, content, overwrite) ==
  [mapping |-> TRUE, path |-> path, content |-> content, overwrite |-> overwrite]
\* a parameters value that is not a JSON object (null, a list, a string)
NotAMapping ==
  [mapping |-> FALSE, path |-> Absent, content |-> Absent, overwrite |-> Absent]

(***************************************************************************)
(* Tool results                                                            *)
(***************************************************************************)
NoResult ==
  [raised |-> FALSE, keys |-> {}, success |-> FALSE, error |-> "", path |-> Absent,
   content |-> <<>>, items |-> {}]
\* the exception left the handler
Raised == [NoResult EXCEPT !.raised = TRUE]
Error(code, path) ==
  [NoResult EXCEPT !.keys = {"error"}, !.error = code, !.path = path]
Content(text) == [NoResult EXCEPT !.keys = {"content"}, !.content = text]
Items(names) == [NoResult EXCEPT !.keys = {"items"}, !.items = names]
WriteFailure(code, path) ==
  [NoResult EXCEPT !.keys = {"success", "error"}, !.error = code, !.path = path]
WriteSuccess(path) ==
  [NoResult EXCEPT !.keys = {"success", "message"}, !.success = TRUE, !.path = path]

\* what a handler yields: its result and the filesystem it leaves
Outcome(result, f) == [result |-> result, fs |-> f]

(***************************************************************************)
(* Requests                                                                *)
(***************************************************************************)
\* request paths of the tool calls
FsPaths ==
  { DOT, nA, Path(<<nA, nB>>), Path(<<nA, nB, nC>>),
    Path(<<nA, DOTDOT, DOTDOT, nB>>), Path(<<DOTDOT, nSandboxExtra, nX>>) }

\* file contents of the write calls
Contents ==
  { EMPTY, Path(<<nA, nB>>), <<"h", CR, LF, "i", CR>>, <<"h", SUR>> }

\* requests that follow the tools' input schemas
ReadParams == {Params(Str(p), Absent, Absent) : p \in FsPaths}
ListParams == ReadParams \cup {Params(Absent, Absent, Absent)}
WriteParams ==
  {Params(Str(p), Str(c), o) : p \in FsPaths, c \in Contents,
                               o \in {Absent, Bool(FALSE), Bool(TRUE)}}

\* requests that do not: keys missing, values of the wrong type, parameters
\* that are not an object
BadReadParams == {Params(p, Absent, Absent) : p \in {Absent, Null, Num}} \cup {NotAMapping}
BadListParams == {Params(p, Absent, Absent) : p \in {Null, Num}} \cup {NotAMapping}
BadWriteParams ==
  ( {Params(p, c, o) : p \in {Absent, Num, Str(EMPTY), Str(nA)},
                       c \in {Absent, Null, Num, Str(EMPTY)},
                       o \in {Absent, Num}}
    \ {Params(Str(nA), Str(EMPTY), Absent)} )
  \cup {NotAMapping}

\* every path string a request can carry, and the default of list_directory
RequestPaths ==
  {params.path.s : params \in ReadParams \cup BadReadParams \cup ListParams
                              \cup BadListParams \cup WriteParams \cup BadWriteParams}
  \cup {DOT}

\* safe_join_and_check of each request path, computed once
Resolution == [p \in RequestPaths |-> safe_join_and_check(p)]

(***************************************************************************)
(* Tool implementations                                                    *)
(***************************************************************************)
\* the file opened for update in a truncating mode ('w+') before it is read
tool_read_file_truncating(f, params) ==
  IF ~params.mapping THEN Outcome(Raised, f)
  ELSE IF params.path.k # "str" THEN Outcome(Error("Error reading file", params.path), f)
  ELSE LET target == Resolution[params.path.s] IN
    IF ~target.ok THEN Outcome(Error("Path traversal", params.path), f)
    ELSE IF ~isfile(f, target.path)
      THEN Outcome(Error("Not a file or not found", params.path), f)
    ELSE Outcome(Content(f_read(open_w(f, target.path), target.path)),
                 open_w(f, target.path))

tool_read_file(f, params) ==
  IF ~params.mapping THEN Outcome(Raised, f)
  ELSE IF params.path.k # "str" THEN Outcome(Error("Error reading file", params.path), f)
  ELSE LET target == Resolution[params.path.s] IN
    IF ~target.ok THEN Outcome(Error("Path traversal", params.path), f)
    ELSE IF ~isfile(f, target.path)
      THEN Outcome(Error("Not a file or not found", params.path), f)
    ELSE Outcome(Content(f_read(f, target.path)), f)

tool_list_directory(f, params) ==
  IF ~params.mapping THEN Outcome(Raised, f)
  ELSE LET path == get(params.path, Str(DOT)) IN
    IF path.k # "str" THEN Outcome(Error("Error listing directory", path), f)
    ELSE LET target == Resolution[path.s] IN
      IF ~target.ok THEN Outcome(Error("Path traversal", path), f)
      ELSE IF ~isdir(f, target.path)
        THEN Outcome(Error("Not a directory or not found", path), f)
      ELSE Outcome(Items(listdir(f, target.path)), f)

\* "not content" in the place of "content is None"
missing_parameter_falsy(relative_path, content) ==
  ~truthy(relative_path) \/ ~truthy(content)

\* if not relative_path or content is None
missing_parameter(relative_path, content) ==
  ~truthy(relative_path) \/ content.k \in {"absent", "null"}

\* the file is opened for writing before the overwrite gate is consulted
tool_write_file_open_first(f, params) ==
  IF ~params.mapping THEN Outcome(Raised, f)
  ELSE LET relative_path == params.path
           content == params.content
           overwrite == get(params.overwrite, Bool(FALSE))
       IN
    IF content.k \in {"bool", "num"}
      THEN Outcome(WriteFailure("Error writing file", relative_path), f)
    ELSE IF missing_parameter(relative_path, content)
      THEN Outcome(WriteFailure("Missing 'path' or 'content' parameter", relative_path), f)
    ELSE IF relative_path.k # "str"
      THEN Outcome(WriteFailure("Error writing file", relative_path), f)
    ELSE LET target == Resolution[relative_path.s]
             target_path == target.path
             parent_dir == dirname(target_path)
         IN
      IF ~target.ok THEN Outcome(WriteFailure("Path traversal", relative_path), f)
      ELSE IF exists(f, target_path) /\ ~truthy(overwrite)
        THEN Outcome(WriteFailure("already exists", relative_path),
                     IF isdir(f, target_path) THEN f ELSE open_w(f, target_path))
      ELSE IF isdir(f, target_path)
        THEN Outcome(WriteFailure("is a directory, cannot write file", relative_path), f)
      ELSE IF ~exists(f, parent_dir) /\ ~makedirs_ok(f, parent_dir)
        THEN Outcome(WriteFailure("Could not create parent directory", relative_path), f)
      ELSE LET f1 == IF ~exists(f, parent_dir) THEN makedirs(f, parent_dir) ELSE f IN
        IF ~open_w_ok(f1, target_path)
          THEN Outcome(WriteFailure("Error writing file", relative_path), f1)
        ELSE IF ~Encodable(content.s)
          THEN Outcome(WriteFailure("codec can't encode", relative_path),
                       open_w(f1, target_path))
        ELSE Outcome(WriteSuccess(relative_path),
                     f_write(open_w(f1, target_path), target_path, content.s))

tool_write_file(f, params) ==
  IF ~params.mapping THEN Outcome(Raised, f)
  ELSE LET relative_path == params.path
           content == params.content
           overwrite == get(params.overwrite, Bool(FALSE))
       IN
    IF content.k \in {"bool", "num"}
      THEN Outcome(WriteFailure("Error writing file", relative_path), f)
    ELSE IF missing_parameter(relative_path, content)
      THEN Outcome(WriteFailure("Missing 'path' or 'content' parameter", relative_path), f)
    ELSE IF relative_path.k # "str"
      THEN Outcome(WriteFailure("Error writing file", relative_path), f)
    ELSE LET target == Resolution[relative_path.s]
             target_path == target.path
             parent_dir == dirname(target_path)
         IN
      IF ~target.ok THEN Outcome(WriteFailure("Path traversal", relative_path), f)
      ELSE IF exists(f, target_path) /\ ~truthy(overwrite)
        THEN Outcome(WriteFailure("already exists", relative_path), f)
      ELSE IF isdir(f, target_path)
        THEN Outcome(WriteFailure("is a directory, cannot write file", relative_path), f)
      ELSE IF ~exists(f, parent_dir) /\ ~makedirs_ok(f, parent_dir)
        THEN Outcome(WriteFailure("Could not create parent directory", relative_path), f)
      ELSE LET f1 == IF ~exists(f, parent_dir) THEN makedirs(f, parent_dir) ELSE f IN
        IF ~open_w_ok(f1, target_path)
          THEN Outcome(WriteFailure("Error writing file", relative_path), f1)
        ELSE IF ~Encodable(content.s)
          THEN Outcome(WriteFailure("codec can't encode", relative_path),
                       open_w(f1, target_path))
        ELSE Outcome(WriteSuccess(relative_path),
                     f_write(open_w(f1, target_path), target_path, content.s))

(***************************************************************************)
(* State machine of the tool calls                                         *)
(***************************************************************************)
\* the tools execute_tool knows, and tool names it does not
KnownTools == {"read_file", "list_directory", "write_file"}
OtherTools == {"delete_file", "READ_FILE", ""}

\* requests for a tool that does not exist
OtherParams ==
  { Params(Absent, Absent, Absent), Params(Str(nA), Str(EMPTY), Bool(TRUE)), NotAMapping }

UnknownTool == [NoResult EXCEPT !.keys = {"error"}, !.error = "Unknown tool"]

\* jsonify({"tool_name": tool_name, "result": result}), status_code
Reply(tool_name, result, status_code) ==
  [sent |-> TRUE, tool_name |-> tool_name, result |-> result, status |-> status_code]
\* no response of execute_tool: the handler's exception left it
NoReply == [sent |-> FALSE, tool_name |-> "", result |-> NoResult, status |-> 0]

\* the handler execute_tool runs for a tool name
Dispatch(f, tool_name, parameters) ==
  IF tool_name = "read_file"
    THEN [handler |-> "read_file", out |-> tool_read_file(f, parameters)]
  ELSE IF tool_name = "list_directory"
    THEN [handler |-> "list_directory", out |-> tool_list_directory(f, parameters)]
  ELSE IF tool_name = "write_file"
    THEN [handler |-> "write_file", out |-> tool_write_file(f, parameters)]
  ELSE [handler |-> "none", out |-> Outcome(UnknownTool, f)]

\* an unknown tool answered without setting the status to 404
respond_without_404(tool_name, run) ==
  LET result == run.out.result
      status_code ==
        IF "error" \in result.keys /\ tool_name # "write_file" THEN 400 ELSE 200
  IN [handler |-> run.handler, result |-> result, fs |-> run.out.fs,
      reply |-> IF result.raised THEN NoReply
                ELSE Reply(tool_name, result, status_code)]

\* the status code and the response for what the dispatch yielded
respond(tool_name, run) ==
  LET result == run.out.result
      status_code ==
        IF run.handler = "none" THEN 404
        ELSE IF "error" \in result.keys /\ tool_name # "write_file" THEN 400
        ELSE 200
  IN [handler |-> run.handler, result |-> result, fs |-> run.out.fs,
      reply |-> IF result.raised THEN NoReply
                ELSE Reply(tool_name, result, status_code)]

execute_tool(f, tool_name, parameters) ==
  respond(tool_name, Dispatch(f, tool_name, parameters))

NoRequest == [tool |-> "none", params |-> NotAMapping]

\* the server after its startup with --sandbox-dir /sandbox
Serving ==
  [phase |-> "serving", sandbox_dir |-> Str(<<SLASH>> \o nSandbox), env_dir |-> Absent,
   base_dir |-> BASE_DIR, served |-> 0]

\* the machine's disk once the server has started: the sandbox root exists
\* and is empty, next to a sibling directory that is not part of the sandbox
InitFs ==
  LET root == <<SLASH>>
      sibling == <<SLASH>> \o nSandboxExtra
  IN (root :> Dir) @@ (BASE_DIR :> Dir) @@ (sibling :> Dir)
     @@ (join(sibling, nX) :> File(<<"k", "e", "y">>))

Pending == [done |-> FALSE, ok |-> FALSE, path |-> <<>>]

Init ==
  /\ arg = EMPTY
  /\ resolved = Pending
  /\ fs = InitFs
  /\ req = NoRequest
  /\ res = NoResult
  /\ pre = InitFs
  /\ written = <<>>
  /\ ran = "none"
  /\ reply = NoReply
  /\ boot = Serving
  /\ procs = <<>>
  /\ log = <<>>

Call(tool, params, out) ==
  /\ req' = [tool |-> tool, params |-> params]
  /\ res' = out.result
  /\ fs' = out.fs
  /\ pre' = fs
  /\ ran' = out.handler
  /\ reply' = out.reply
  /\ boot.phase = "serving"
  /\ UNCHANGED <<arg, resolved, boot, procs, log>>

ReadFile ==
  \E params \in ReadParams \cup BadReadParams :
    \E out \in {execute_tool(fs, "read_file", params)} :
      /\ Call("read_file", params, out)
      /\ UNCHANGED written

ListDirectory ==
  \E params \in ListParams \cup BadListParams :
    \E out \in {execute_tool(fs, "list_directory", params)} :
      /\ Call("list_directory", params, out)
      /\ UNCHANGED written

\* written: for each file, the text of the last successful write_file to it
Remember(w, p, text) == [q \in DOMAIN w \cup {p} |-> IF q = p THEN text ELSE w[q]]
Forget(w, p) == [q \in DOMAIN w \ {p} |-> w[q]]

WriteFile ==
  \E params \in WriteParams \cup BadWriteParams :
    \E out \in {execute_tool(fs, "write_file", params)} :
      /\ Call("write_file", params, out)
      /\ written' =
           IF out.result.success
             THEN Remember(written, Resolution[params.path.s].path, params.content.s)
           ELSE IF out.fs # fs
             THEN Forget(written, Resolution[params.path.s].path)
           ELSE written

OtherTool ==
  \E tool_name \in OtherTools, params \in OtherParams :
    \E out \in {execute_tool(fs, tool_name, params)} :
      /\ Call(tool_name, params, out)
      /\ UNCHANGED written

Next == ReadFile \/ ListDirectory \/ WriteFile \/ OtherTool

Spec == Init /\ [][Next]_vars

(***************************************************************************)
(* State machine of the path guard alone                                   *)
(***************************************************************************)
Segs == {EMPTY, DOT, DOTDOT, nA, nB, nSandboxExtra}
LeadChars == {SLASH, BACKSLASH}

RECURSIVE SeqsUpTo(_, _)
SeqsUpTo(S, n) ==
  IF n = 0 THEN {<<>>}
  ELSE LET shorter == SeqsUpTo(S, n - 1)
       IN shorter \cup {Append(q, x) : q \in {r \in shorter : Len(r) = n - 1}, x \in S}

NamedInputs ==
  { Path(<<DOTDOT, nSecret>>), Path(<<EMPTY, nAbs, nOutside>>),
    Path(<<nA, DOTDOT, DOTDOT, nB>>), Path(<<EMPTY, nEtc, nPasswd>>),
    Path(<<nEtc, nPasswd>>), Path(<<DOTDOT, nSandboxExtra, nX>>),
    Path(<<nDots, EMPTY, nDots>>), Path(<<nA, DOTDOT, DOTDOT, DOTDOT, nB>>) }

Inputs ==
  {lead \o Path(segs) : lead \in SeqsUpTo(LeadChars, MaxLead),
                        segs \in SeqsUpTo(Segs, MaxSegs)}
  \cup NamedInputs

InitPath ==
  /\ arg \in Inputs
  /\ resolved = Pending
  /\ fs = InitFs
  /\ req = NoRequest
  /\ res = NoResult
  /\ pre = InitFs
  /\ written = <<>>
  /\ ran = "none"
  /\ reply = NoReply
  /\ boot = Serving
  /\ procs = <<>>
  /\ log = <<>>

Resolve ==
  /\ ~resolved.done
  /\ resolved' = [done |-> TRUE] @@ safe_join_and_check(arg)
  /\ UNCHANGED <<arg, fs, req, res, pre, written, ran, reply, boot, procs, log>>

NextPath == Resolve

SpecPath == InitPath /\ [][NextPath]_vars

(***************************************************************************)
(* State machine of the startup                                            *)
(***************************************************************************)
pSandbox == <<SLASH>> \o nSandbox
pSrv == Path(<<EMPTY, <<"s", "r", "v">>>>)
pSrvData == Path(<<EMPTY, <<"s", "r", "v">>, <<"d", "a", "t", "a">>>>)
pDefault == join(dirname(ScriptFile), default_dir_name)

\* values of --sandbox-dir (the last one relative) and of MCP_SANDBOX_DIR
SandboxDirArgs == {Absent, Str(EMPTY), Str(pSandbox), Str(<<"b", "o", "x">>)}
EnvDirs == {Absent, Str(EMPTY), Str(pSrvData)}

\* the disks the server can be started on: each candidate root is absent, a
\* directory or a regular file, and so is the parent of one of them
Kinds == {"absent", "dir", "file"}
Place(d, p, kind) ==
  IF kind = "absent" THEN d
  ELSE d @@ (p :> (IF kind = "dir" THEN Dir ELSE File(<<>>)))

StartDisks ==
  LET bare == (<<SLASH>> :> Dir) @@ (dirname(ScriptFile) :> Dir)
               @@ (ScriptFile :> File(<<>>))
  IN { Place(Place(Place(Place(bare, pSandbox, k[1]), pSrv, k[2]), pSrvData, k[3]),
             pDefault, k[4]) :
       k \in {q \in Kinds \X Kinds \X Kinds \X Kinds : q[3] = "absent" \/ q[2] = "dir"} }

\* module level, lines 44-58: choose BASE_DIR, create it if absent, exit if
\* it cannot be created or is not a directory
startup(f, sandbox_dir, env_dir) ==
  LET base_dir == get_base_dir(sandbox_dir, env_dir) IN
    IF ~exists(f, base_dir)
      THEN IF makedirs_ok(f, base_dir)
             THEN [base_dir |-> base_dir, phase |-> "serving", fs |-> makedirs(f, base_dir)]
             ELSE [base_dir |-> base_dir, phase |-> "exited", fs |-> f]
    ELSE IF ~isdir(f, base_dir)
      THEN [base_dir |-> base_dir, phase |-> "exited", fs |-> f]
    ELSE [base_dir |-> base_dir, phase |-> "serving", fs |-> f]

InitStart ==
  /\ arg = EMPTY
  /\ resolved = Pending
  /\ fs \in StartDisks
  /\ req = NoRequest
  /\ res = NoResult
  /\ pre = fs
  /\ written = <<>>
  /\ ran = "none"
  /\ reply = NoReply
  /\ boot \in [phase : {"starting"}, sandbox_dir : SandboxDirArgs, env_dir : EnvDirs,
               base_dir : {EMPTY}, served : {0}]
  /\ procs = <<>>
  /\ log = <<>>

Startup ==
  /\ boot.phase = "starting"
  /\ \E up \in {startup(fs, boot.sandbox_dir, boot.env_dir)} :
       /\ boot' = [boot EXCEPT !.phase = up.phase, !.base_dir = up.base_dir]
       /\ fs' = up.fs
       /\ pre' = fs
  /\ UNCHANGED <<arg, resolved, req, res, written, ran, reply, procs, log>>

\* app.run: a request is served; BASE_DIR is read, never assigned
Serve ==
  /\ boot.phase = "serving"
  /\ boot.served < MaxServed
  /\ boot' = [boot EXCEPT !.served = @ + 1]
  /\ UNCHANGED <<arg, resolved, fs, req, res, pre, written, ran, reply, procs, log>>

NextStart == Startup \/ Serve

SpecStart == InitStart /\ [][NextStart]_vars

(***************************************************************************)
(* State machine of two concurrent write_file calls                        *)
(*                                                                         *)
(* The development server answers each request in a thread of its own, so  *)
(* the filesystem calls of two tool_write_file executions interleave.  A   *)
(* call is at one of: "check" (lines 174-188), "parent" (191-192), "mkdir" *)
(* (194-199), "open" (205), "write" (206-208), "done".                     *)
(***************************************************************************)
Workers == {1, 2}

\* the paths and the contents of the two calls; overwrite is off in both
RacePaths == {nA, Path(<<nA, nB>>)}
RaceContents == {<<"h", "i">>, <<"h", "e", "l", "l", "o">>}

\* the written text replaces whatever the file holds
write_replacing(f, p, content) == [f EXCEPT ![p] = File(write_translate(content))]

\* f.write(content) and close on a file opened earlier: the text goes to the
\* start of the file, over what is there now
write_at_start(f, p, content) ==
  LET data == write_translate(content)
      old == f[p].data
  IN [f EXCEPT ![p] = File(data \o SubSeq(old, Len(data) + 1, Len(old)))]

InitRace ==
  /\ arg = EMPTY
  /\ resolved = Pending
  /\ fs = InitFs
  /\ req = NoRequest
  /\ res = NoResult
  /\ pre = InitFs
  /\ written = <<>>
  /\ ran = "none"
  /\ reply = NoReply
  /\ boot = Serving
  /\ \E path \in RacePaths, text \in [Workers -> RaceContents] :
       /\ text[1] # text[2]
       /\ procs = [w \in Workers |->
                     [pc |-> "check",
                      params |-> Params(Str(path), Str(text[w]), Bool(FALSE)),
                      result |-> NoResult]]
  /\ log = <<>>

At(w, pc) == w \in DOMAIN procs /\ procs[w].pc = pc
target_path(w) == Resolution[procs[w].params.path.s].path

Step(w, pc, f) ==
  /\ procs' = [procs EXCEPT ![w].pc = pc]
  /\ fs' = f
  /\ log' = Append(log, <<w, procs[w].pc>>)
  /\ UNCHANGED <<arg, resolved, req, res, pre, written, ran, reply, boot>>

Return(w, result, f) ==
  /\ procs' = [procs EXCEPT ![w].pc = "done", ![w].result = result]
  /\ fs' = f
  /\ log' = Append(log, <<w, procs[w].pc>>)
  /\ UNCHANGED <<arg, resolved, req, res, pre, written, ran, reply, boot>>

\* lines 174-188: the path guard, the existence check, the directory check
Check(w) ==
  /\ At(w, "check")
  /\ LET relative_path == procs[w].params.path
         overwrite == get(procs[w].params.overwrite, Bool(FALSE))
     IN IF ~Resolution[relative_path.s].ok
          THEN Return(w, WriteFailure("Path traversal", relative_path), fs)
        ELSE IF exists(fs, target_path(w)) /\ ~truthy(overwrite)
          THEN Return(w, WriteFailure("already exists", relative_path), fs)
        ELSE IF isdir(fs, target_path(w))
          THEN Return(w, WriteFailure("is a directory, cannot write file", relative_path), fs)
        ELSE Step(w, "parent", fs)

\* lines 191-192: does the parent directory exist
Parent(w) ==
  /\ At(w, "parent")
  /\ IF ~exists(fs, dirname(target_path(w)))
       THEN Step(w, "mkdir", fs)
       ELSE Step(w, "open", fs)

\* lines 194-199: os.makedirs raises when the directory exists by now
Mkdir(w) ==
  /\ At(w, "mkdir")
  /\ LET parent_dir == dirname(target_path(w)) IN
       IF exists(fs, parent_dir) \/ ~makedirs_ok(fs, parent_dir)
         THEN Return(w, WriteFailure("Could not create parent directory",
                                     procs[w].params.path), fs)
         ELSE Step(w, "open", makedirs(fs, parent_dir))

\* line 205: open(target_path, 'w') creates the file or truncates it
Open(w) ==
  /\ At(w, "open")
  /\ IF ~open_w_ok(fs, target_path(w))
       THEN Return(w, WriteFailure("Error writing file", procs[w].params.path), fs)
       ELSE Step(w, "write", open_w(fs, target_path(w)))

\* lines 206-229: f.write(content), close, the success result
Write(w) ==
  /\ At(w, "write")
  /\ IF ~Encodable(procs[w].params.content.s)
       THEN Return(w, WriteFailure("codec can't encode", procs[w].params.path), fs)
       ELSE Return(w, WriteSuccess(procs[w].params.path),
                   write_at_start(fs, target_path(w), procs[w].params.content.s))

NextRace ==
  \E w \in Workers : Check(w) \/ Parent(w) \/ Mkdir(w) \/ Open(w) \/ Write(w)

SpecRace == InitRace /\ [][NextRace]_vars

(***************************************************************************)
(* Properties of the path guard (checked under SpecPath)                   *)
(***************************************************************************)
\* the directory names of an absolute path
Components(p) == SelectSeq(Split(p, SLASH), LAMBDA c : c # EMPTY)

IsPrefixSeq(a, b) == Len(a) <= Len(b) /\ SubSeq(b, 1, Len(a)) = a

\* p is the sandbox root or a descendant of it, by path components
WithinRoot(p) == IsPrefixSeq(Components(BASE_DIR), Components(p))

\* the request path without its leading separator characters
RECURSIVE Unlead(_)
Unlead(s) ==
  IF s # <<>> /\ (s[1] = SLASH \/ s[1] = BACKSLASH) THEN Unlead(Tail(s)) ELSE s

\* a walk over the segments of a relative path, starting at the root:
\* names descend, ".." ascends, "" and "." stay; climbed once it ascends
\* above the start
RECURSIVE Walk(_, _)
Walk(segs, below) ==
  IF segs = <<>> THEN [climbed |-> FALSE, below |-> below]
  ELSE IF Head(segs) = EMPTY \/ Head(segs) = DOT THEN Walk(Tail(segs), below)
  ELSE IF Head(segs) = DOTDOT
    THEN IF below = <<>> THEN [climbed |-> TRUE, below |-> <<>>]
         ELSE Walk(Tail(segs), SubSeq(below, 1, Len(below) - 1))
  ELSE Walk(Tail(segs), Append(below, Head(segs)))

WalkOf(s) == Walk(Split(Unlead(s), SLASH), <<>>)
Climbs(s) == WalkOf(s).climbed
UnderRoot(names) == JoinWith(<<BASE_DIR>> \o names, SLASH)

\* C1: every path the guard returns is the sandbox root or a descendant of
\* it, compared by path components; anything else is rejected.
C1_Containment == (resolved.done /\ resolved.ok) => WithinRoot(resolved.path)

\* C2: the guard rejects '../secret', '/abs/outside' and 'a/../../b', and
\* every input whose normalized form climbs above the sandbox root.
C2_Rejects ==
  (resolved.done /\ (\/ arg \in { Path(<<DOTDOT, nSecret>>),
                                 Path(<<EMPTY, nAbs, nOutside>>),
                                 Path(<<nA, DOTDOT, DOTDOT, nB>>) }
                     \/ Climbs(arg)))
  => ~resolved.ok

\* C3: the guard accepts '.' and '' as the root itself, accepts every input
\* whose normalized form stays at or below the root, as the root followed by
\* the normalized segments, and resolves an input with leading '/' or '\'
\* characters as it resolves the input without them.
C3_Accepts ==
  resolved.done =>
    /\ (arg \in {EMPTY, DOT} => resolved = [done |-> TRUE] @@ Accepted(BASE_DIR))
    /\ (~Climbs(arg) =>
          /\ resolved.ok
          /\ resolved.path = UnderRoot(WalkOf(arg).below)
          /\ WithinRoot(resolved.path))
    /\ resolved = [done |-> TRUE] @@ safe_join_and_check(Unlead(arg))

C3_Witness ==
  /\ resolved.done
  /\ arg = Path(<<EMPTY, nEtc, nPasswd>>)
  /\ resolved.ok
  /\ resolved.path = UnderRoot(<<nEtc, nPasswd>>)

(***************************************************************************)
(* Properties of the tool calls (checked under Spec)                       *)
(***************************************************************************)
\* what is on a disk d at path p
Present(d, p) == p \in DOMAIN d
IsDirectory(d, p) == Present(d, p) /\ d[p].kind = "dir"
IsRegularFile(d, p) == Present(d, p) /\ d[p].kind = "file"

\* the last request was this tool, with an object as its parameters
Called(tool) == req.tool = tool /\ req.params.mapping

\* where the last request's path resolves
Target == safe_join_and_check(req.params.path.s)
Resolves == req.params.path.k = "str" /\ Target.ok

\* the last request was a write_file with a string path and a string content
WriteCalled ==
  /\ Called("write_file")
  /\ req.params.path.k = "str"
  /\ req.params.content.k = "str"

OverwriteOff == req.params.overwrite \in {Absent, Bool(FALSE)}
OverwritePerSchema == req.params.overwrite \in {Absent, Bool(FALSE), Bool(TRUE)}

\* C4: a write_file whose path resolves to an existing file, with overwrite
\* omitted or false, fails with the already-exists error and leaves the
\* file's content as it was.
C4_OverwriteGate ==
  (WriteCalled /\ OverwriteOff /\ Resolves /\ IsRegularFile(pre, Target.path))
  => /\ res = WriteFailure("already exists", req.params.path)
     /\ IsRegularFile(fs, Target.path)
     /\ fs[Target.path].data = pre[Target.path].data

C4_Witness ==
  /\ WriteCalled /\ OverwriteOff /\ Resolves
  /\ IsRegularFile(pre, Target.path)
  /\ pre[Target.path].data # <<>>
  /\ req.params.content.s # pre[Target.path].data
  /\ res.error = "already exists"

\* C5: after a successful write_file(p, C, overwrite=true), a read_file(p)
\* with no write in between returns exactly C.
C5_RoundTrip ==
  (Called("read_file") /\ Resolves /\ Target.path \in DOMAIN written)
  => res = Content(written[Target.path])

\* C6: a write_file whose path ('.' for the root, or any other non-empty
\* path) resolves to an existing directory fails with the directory error
\* whatever overwrite is, and changes nothing.
C6_DirectoryError ==
  (WriteCalled /\ OverwritePerSchema /\ req.params.path.s # EMPTY
   /\ Resolves /\ IsDirectory(pre, Target.path))
  => /\ res = WriteFailure("is a directory, cannot write file", req.params.path)
     /\ fs = pre

\* the directories above the target of the last request
Above == SelfAndAncestors(dirname(Target.path))

\* the last request's write succeeded, with every directory above the target
\* in place and the target holding the request's content
Written ==
  /\ res = WriteSuccess(req.params.path)
  /\ \A q \in Above : IsDirectory(fs, q)
  /\ IsRegularFile(fs, Target.path)
  /\ fs[Target.path].data = req.params.content.s

WriteIntoMissingParent ==
  /\ WriteCalled /\ Encodable(req.params.content.s)
  /\ Resolves /\ WithinRoot(Target.path)
  /\ ~Present(pre, dirname(Target.path))

C8_NoRawExceptions ==
  (req.tool # "none") =>
    /\ ~res.raised
    /\ (~req.params.mapping =>
          /\ "error" \in res.keys
          /\ (req.tool = "write_file" => "success" \in res.keys /\ ~res.success))

\* the parameters present in the last request have the types of the schema
PresentAreStrings ==
  /\ req.params.path.k \in {"absent", "str"}
  /\ req.params.content.k \in {"absent", "str"}

\* C9: a write_file without the 'path' key or without the 'content' key fails
\* with the missing-parameter error and changes nothing on disk; an empty
\* string is a valid content, written as an empty file; every failure of
\* write_file has success=false and an error string.
C9_MissingParameter ==
  Called("write_file") =>
    /\ (PresentAreStrings
        /\ (req.params.path.k = "absent" \/ req.params.content.k = "absent")
        => /\ res = WriteFailure("Missing 'path' or 'content' parameter", req.params.path)
           /\ fs = pre)
    /\ (WriteCalled /\ req.params.content.s = EMPTY /\ req.params.path.s # EMPTY
        => /\ res.error # "Missing 'path' or 'content' parameter"
           /\ (res.success => fs[Target.path] = File(EMPTY)))
    /\ (~res.success
        => res.keys = {"success", "error"} /\ res.error # "")

C9_Witness ==
  /\ Called("write_file")
  /\ req.params.path = Absent
  /\ req.params.content = Str(EMPTY)
  /\ res = WriteFailure("Missing 'path' or 'content' parameter", Absent)
  /\ fs = pre

\* the path list_directory works on: '.' when the key is absent
ListPath == get(req.params.path, Str(DOT))

\* C10: read_file on a path that resolves but is not an existing file gives
\* the 'Not a file or not found: <path>' error and no content;
\* list_directory on a path that is not an existing directory gives the
\* 'Not a directory or not found: <path>' error and no items; a traversal
\* rejection in either gives an error and neither content nor items.
C10_NotFoundErrors ==
  /\ (Called("read_file") /\ Resolves /\ ~IsRegularFile(pre, Target.path)
      => res = Error("Not a file or not found", req.params.path))
  /\ (Called("list_directory") /\ ListPath.k = "str"
      /\ safe_join_and_check(ListPath.s).ok
      /\ ~IsDirectory(pre, safe_join_and_check(ListPath.s).path)
      => res = Error("Not a directory or not found", ListPath))
  /\ ((Called("read_file") \/ Called("list_directory"))
      /\ req.params.path.k = "str" /\ ~Target.ok
      => res.keys = {"error"} /\ res.error # "")

C10_Witness ==
  /\ Called("read_file") /\ Resolves
  /\ IsDirectory(pre, Target.path)
  /\ Target.path # BASE_DIR
  /\ WithinRoot(Target.path)
  /\ res = Error("Not a file or not found", req.params.path)

\* the names of the immediate children of the sandbox root on a disk d
RootChildren(d) ==
  LET root == Components(BASE_DIR)
      children == {p \in DOMAIN d : /\ Len(Components(p)) = Len(root) + 1
                                    /\ IsPrefixSeq(root, Components(p))}
  IN {Components(p)[Len(root) + 1] : p \in children}

\* C11: list_directory without a 'path' parameter returns what
\* list_directory('.') returns: the names of the immediate children of the
\* sandbox root, files and directories alike, and nothing below them.
C11_ListingRootDefault ==
  Called("list_directory") =>
    /\ (req.params.path = Absent
        => /\ res = Items(RootChildren(pre))
           /\ res = tool_list_directory(pre, Params(Str(DOT), Absent, Absent)).result)
    /\ (req.params.path = Str(DOT) => res = Items(RootChildren(pre)))

C11_Witness ==
  /\ Called("list_directory")
  /\ req.params.path = Absent
  /\ IsRegularFile(pre, UnderRoot(<<nA, nB>>))
  /\ res = Items({nA})

\* C12: read_file and list_directory leave every file, directory and content
\* as it was, whatever their parameters and whether they succeed, fail or
\* raise; only write_file changes the filesystem.
C12_ReadOnly ==
  /\ (req.tool \in {"read_file", "list_directory"} => fs = pre)
  /\ (fs # pre => req.tool = "write_file")

C12_Witness ==
  /\ Called("read_file")
  /\ res.keys = {"content"}
  /\ res.content # EMPTY
  /\ fs = pre

\* C13: execute_tool runs the handler its tool_name names, and no other; for
\* any other tool_name it runs no handler, leaves the disk alone and answers
\* {error: 'Unknown tool: ...'} with status 404; every response carries the
\* request's tool_name and the result.
C13_Dispatch ==
  (req.tool # "none") =>
    /\ (req.tool = "read_file"
        => ran = "read_file" /\ [result |-> res, fs |-> fs] = tool_read_file(pre, req.params))
    /\ (req.tool = "list_directory"
        => ran = "list_directory"
           /\ [result |-> res, fs |-> fs] = tool_list_directory(pre, req.params))
    /\ (req.tool = "write_file"
        => ran = "write_file" /\ [result |-> res, fs |-> fs] = tool_write_file(pre, req.params))
    /\ (req.tool \notin KnownTools
        => /\ ran = "none"
           /\ fs = pre
           /\ res.keys = {"error"} /\ res.error = "Unknown tool"
           /\ reply.sent /\ reply.status = 404)
    /\ (reply.sent => reply.tool_name = req.tool /\ reply.result = res)
    /\ (req.params.mapping => ~res.raised /\ reply.sent)

C13_Witness ==
  /\ req.tool = "delete_file"
  /\ req.params = Params(Str(nA), Str(EMPTY), Bool(TRUE))
  /\ ran = "none"
  /\ fs = pre
  /\ reply = Reply("delete_file", UnknownTool, 404)

(***************************************************************************)
(* Properties of the startup (checked under SpecStart)                     *)
(***************************************************************************)
\* an option that was given a value
Given(opt) == opt.k = "str" /\ opt.s # EMPTY

\* the root by precedence: command line, then environment, then default
ChosenRoot ==
  IF Given(boot.sandbox_dir) THEN abspath(boot.sandbox_dir.s)
  ELSE IF Given(boot.env_dir) THEN abspath(boot.env_dir.s)
  ELSE Path(<<EMPTY, <<"a", "p", "p">>, default_dir_name>>)

\* a regular file stands where the root, or a directory above it, should be
RECURSIVE Blocked(_, _)
Blocked(d, comps) ==
  IF comps = <<>> THEN FALSE
  ELSE IsRegularFile(d, <<SLASH>> \o Path(comps))
       \/ Blocked(d, SubSeq(comps, 1, Len(comps) - 1))

\* C14: the root is chosen by precedence --sandbox-dir, MCP_SANDBOX_DIR,
\* default directory next to the script; an absent root is created; a root
\* that is not a directory or cannot be created makes the process exit
\* before it serves a request; while requests are served the root stays the
\* one chosen at startup.
C14_Startup ==
  (boot.phase # "starting") =>
    /\ boot.base_dir = ChosenRoot
    /\ (~Blocked(pre, Components(ChosenRoot))
        => boot.phase = "serving" /\ IsDirectory(fs, ChosenRoot))
    /\ (Blocked(pre, Components(ChosenRoot))
        => boot.phase = "exited" /\ fs = pre)
    /\ (boot.phase = "exited" => boot.served = 0)
    /\ (\A p \in DOMAIN pre : p \in DOMAIN fs /\ fs[p] = pre[p])

C14_Witness ==
  /\ boot.phase = "serving"
  /\ boot.served = MaxServed
  /\ boot.sandbox_dir = Str(EMPTY)
  /\ boot.env_dir = Str(pSrvData)
  /\ ~Present(pre, pSrv)
  /\ boot.base_dir = pSrvData
  /\ IsDirectory(fs, pSrv) /\ IsDirectory(fs, pSrvData)

(***************************************************************************)
(* Properties of two concurrent write_file calls                           *)
(***************************************************************************)
Other(w) == CHOOSE v \in Workers : v # w

\* the position in the history of the step a call took from a place, 0 if none
When(w, pc) ==
  IF \E i \in DOMAIN log : log[i] = <<w, pc>>
    THEN CHOOSE i \in DOMAIN log : log[i] = <<w, pc>>
    ELSE 0
Earlier(v, pcv, w, pcw) ==
  When(v, pcv) # 0 /\ When(w, pcw) # 0 /\ When(v, pcv) < When(w, pcw)

BothReturned == procs # <<>> /\ \A w \in Workers : procs[w].pc = "done"
Text(w) == procs[w].params.content.s
RaceTarget == safe_join_and_check(procs[1].params.path.s).path
Succeeded(w) == procs[w].result = WriteSuccess(procs[w].params.path)
FailedWith(w, code) == procs[w].result = WriteFailure(code, procs[w].params.path)
\* the call that created the file
Creator(w) == When(w, "open") # 0 /\ ~Earlier(Other(w), "open", w, "open")
\* a text laid over the start of another
Over(new, old) == new \o SubSeq(old, Len(new) + 1, Len(old))

\* C15, as stated: of two concurrent write_file calls with overwrite=false on
\* one path that did not exist, at most one returns success=true, and the
\* file keeps the content of the call that created it.
C15_AtMostOneWins ==
  BothReturned =>
    /\ ~(Succeeded(1) /\ Succeeded(2))
    /\ \A w \in Workers : Creator(w) => fs[RaceTarget].data = Text(w)

\* C15, amended: a call fails with already-exists exactly when its existence
\* check runs after the other call has opened the file, and it fails on the
\* parent directory exactly when the other call made that directory between
\* its parent check and its own makedirs; every other call returns
\* success=true, so both do when both checks precede both opens.  A failing
\* call leaves the file to the other call's content; when both succeed the
\* file holds the text written last, laid over the text written first when
\* that was written after the last writer had opened the file.
C15_GateRace ==
  BothReturned =>
    \A w \in Workers :
      LET v == Other(w) IN
      /\ FailedWith(w, "already exists") <=> Earlier(v, "open", w, "check")
      /\ FailedWith(w, "Could not create parent directory")
           <=> Earlier(v, "mkdir", w, "mkdir")
      /\ Succeeded(w) \/ FailedWith(w, "already exists")
           \/ FailedWith(w, "Could not create parent directory")
      /\ ~Succeeded(w) =>
           /\ Succeeded(v)
           /\ IsRegularFile(fs, RaceTarget)
           /\ fs[RaceTarget].data = Text(v)
      /\ (Succeeded(w) /\ Succeeded(v) /\ Earlier(v, "write", w, "write")) =>
           /\ IsRegularFile(fs, RaceTarget)
           /\ fs[RaceTarget].data =
                IF Earlier(w, "open", v, "write")
                  THEN Over(Text(w), Text(v))
                  ELSE Text(w)

\* both calls returned success=true and the file holds neither call's content
C15_Witness ==
  /\ BothReturned
  /\ Succeeded(1) /\ Succeeded(2)
  /\ ~Present(pre, RaceTarget)
  /\ IsRegularFile(fs, RaceTarget)
  /\ fs[RaceTarget].data \notin {Text(1), Text(2)}

(***************************************************************************)
(* Properties of the write frame                                           *)
(***************************************************************************)
WriteReturned == Called("write_file") /\ "success" \in res.keys
HasLoneSurrogate(text) == \E i \in 1..Len(text) : text[i] = SUR

\* nothing is removed, nothing but the target is altered, and what is new is
\* the target or a directory above it
FrameAt(target) ==
  /\ \A p \in DOMAIN pre :
       /\ Present(fs, p)
       /\ fs[p].kind = pre[p].kind
       /\ p # target => fs[p] = pre[p]
  /\ \A p \in DOMAIN fs \ DOMAIN pre :
       \/ p = target /\ IsRegularFile(fs, p)
       \/ p \in SelfAndAncestors(dirname(target)) /\ IsDirectory(fs, p)
Frame == fs = pre \/ (Resolves /\ FrameAt(Target.path))

\* C16, as stated: a write_file that returns success=false leaves the whole
\* filesystem unchanged, and one that returns success=true changes only the
\* target's content and adds only its missing ancestor directories.
C16_WriteFrameAlways ==
  WriteReturned =>
    /\ ~res.success => fs = pre
    /\ res.success => Frame

\* C16, amended: a write_file that returns success=false leaves the whole
\* filesystem unchanged unless it failed while writing a content that cannot
\* be encoded: then the target is left an empty file, created or truncated,
\* with its missing ancestor directories added.  Every write_file, failed or
\* not, changes only the resolved target and adds only its previously missing
\* ancestor directories.
C16_WriteFrame ==
  WriteReturned =>
    /\ Frame
    /\ (~res.success /\ fs # pre) =>
         /\ WriteCalled /\ Resolves
         /\ HasLoneSurrogate(req.params.content.s)
         /\ res.error = "codec can't encode"
         /\ IsRegularFile(fs, Target.path)
         /\ fs[Target.path].data = <<>>
    /\ (~res.success /\ res.error # "codec can't encode") => fs = pre

\* a successful write that made a directory and a file beside files that it
\* left alone
C16_Witness ==
  /\ WriteReturned
  /\ res.success
  /\ Resolves
  /\ ~Present(pre, Target.path)
  /\ ~Present(pre, dirname(Target.path))
  /\ IsDirectory(fs, dirname(Target.path))
  /\ \E p \in DOMAIN pre : IsRegularFile(pre, p) /\ fs[p] = pre[p]

====
